---------------------------- MODULE Spec2Model ----------------------------
(***************************************************************************)
(* Quadrotor flight dynamics / control loop of the two notebooks            *)
(*   5-Controller-Full.ipynb  (fixed-step dynamics, cascaded PD controller) *)
(*   3 - Reworking.ipynb      (rotor-rate dynamics, hovering controller)    *)
(*                                                                         *)
(* Numbers.  The program computes in floating point.  Here every quantity  *)
(* is an integer count of a fixed unit, and a product or quotient that     *)
(* leaves the unit grid is rounded to the nearest unit (RoundDiv,          *)
(* MulDivR), as a floating point operation rounds to the nearest float.    *)
(*                                                                         *)
(*   mass                g                                                 *)
(*   force (u1, thrust)  1e-7 N                                            *)
(*   acceleration        1e-5 m/s^2                                        *)
(*   velocity            1e-8 m/s    (= 1e-5 m/s^2 * ms)                   *)
(*   position            2.5e-10 m                                         *)
(*   time, dt            ms                                                *)
(*   quaternion, rotation matrix entries     1e-3                          *)
(*   angle               mrad                                              *)
(*   angular velocity    1e-3 rad/s                                        *)
(*   angular accel.      1e-3 rad/s^2                                      *)
(*   inertia             1e-5 kg m^2                                       *)
(*   torque (u2)         1e-5 N m                                          *)
(*   gains               tenths                                            *)
(*   rotor rate          1e-2 rad/s                                        *)
(*   k_thrust, k_torque  1e-10 N s^2                                       *)
(*                                                                         *)
(* A NaN or Inf is not a number of the grid: a record carries the set      *)
(* `nonfinite` of its fields that hold one.  IEEE arithmetic gives a       *)
(* non-finite result to every sum and product with a non-finite operand,   *)
(* so the set is propagated along the data flow of each formula.           *)
(***************************************************************************)
EXTENDS Integers, Sequences, FiniteSets, TLC

VARIABLES
    state,      \* QuadrotorState: the vehicle state (the driver's `state`)
    state0,     \* the state the run started from
    command,    \* the last command given to / produced for the dynamics
    sample,     \* the last TrajectoryState
    gains,      \* ControllerParams: K_p, K_d, Ka_p, Ka_d diagonals
    locals,     \* values the last step computed on its way (u1, u2, ...)
    raised,     \* the exception the last call raised, "" when it returned
    nsteps,     \* number of calls made so far in this run
    history,    \* facts about the calls made so far (record of BOOLEANs)
    prog,       \* which notebook's classes the driver was built from
    pc,         \* the driver's position inside simulate()
    dt,         \* the timestep the simulator was constructed with
    t,          \* the driver's clock
    output      \* the driver's output sequence

vars == <<state, state0, command, sample, gains, locals, raised, nsteps,
          history, prog, pc, dt, t, output>>

---------------------------------------------------------------------------
(* Fixed-point arithmetic *)

Abs(x) == IF x < 0 THEN -x ELSE x

Sgn(x) == IF x < 0 THEN -1 ELSE IF x > 0 THEN 1 ELSE 0

\* a / b rounded to the nearest integer, halves away from zero (b > 0)
RoundDiv(a, b) ==
    IF a >= 0 THEN (a + b \div 2) \div b ELSE -((-a + b \div 2) \div b)

\* <<q, r>> with a * b = q * c + r and 0 <= r < c, for a, b >= 0 and c > 0,
\* computed by doubling so that no intermediate value leaves 32 bits
RECURSIVE MulDivNat(_, _, _)
MulDivNat(a, b, c) ==
    IF b = 0 THEN <<0, 0>>
    ELSE LET h  == MulDivNat(a, b \div 2, c)
             rr == 2 * h[2] + (b % 2) * (a % c)
         IN  <<2 * h[1] + (b % 2) * (a \div c) + rr \div c, rr % c>>

\* a * b / c rounded to the nearest integer (c > 0)
MulDivR(a, b, c) ==
    LET qr == IF Abs(a) >= Abs(b) THEN MulDivNat(Abs(a), Abs(b), c)
                                  ELSE MulDivNat(Abs(b), Abs(a), c)
        m  == IF 2 * qr[2] >= c THEN qr[1] + 1 ELSE qr[1]
    IN  Sgn(a) * Sgn(b) * m

\* integer square root: the largest s with s * s <= n
RECURSIVE ISqrtIter(_, _, _)
ISqrtIter(n, lo, hi) ==
    IF lo >= hi THEN lo
    ELSE LET mid == (lo + hi + 1) \div 2
         IN  IF mid <= n \div mid THEN ISqrtIter(n, mid, hi)
                                  ELSE ISqrtIter(n, lo, mid - 1)

\* sqrt(n) rounded to the nearest integer
SqrtR(n) ==
    LET s == ISqrtIter(n, 0, 46340)
    IN  IF s < 46340 /\ n - s * s > s THEN s + 1 ELSE s

Unit3 == 10^3
Unit6 == 10^6

Zero3 == <<0, 0, 0>>

VAdd(a, b) == [i \in DOMAIN a |-> a[i] + b[i]]
VSub(a, b) == [i \in DOMAIN a |-> a[i] - b[i]]

---------------------------------------------------------------------------
(* Values of the data classes *)

\* QuadrotorState(position, velocity, orientation, angular_velocity)
QuadrotorState(p, v, q, w, nf) ==
    [position |-> p, velocity |-> v, orientation |-> q,
     angular_velocity |-> w, nonfinite |-> nf]

\* the (u1, u2) command FullQuadrotorDynamics.step of notebook 5 reads
ThrustTorque(u1, u2, nf) ==
    [kind |-> "u1u2", u1 |-> u1, u2 |-> u2, nonfinite |-> nf]

NoCommand == [kind |-> "none"]
NoSample == [kind |-> "none"]
NoLocals == [kind |-> "none"]

Identity == <<0, 0, 0, Unit3>>

\* initial_state of both notebooks: origin, at rest, level
initial_state == QuadrotorState(Zero3, Zero3, Identity, Zero3, {})

\* ControllerParams(): K_p, K_d, Ka_p, Ka_d (diagonals)
DefaultGains ==
    [K_p |-> <<10, 10, 1000>>, K_d |-> <<5, 5, 100>>,
     Ka_p |-> <<3000, 3000, 500>>, Ka_d |-> <<500, 500, 200>>]

NoHistory == [zero_thrust |-> TRUE, zero_torque |-> TRUE, finite_in |-> TRUE,
              same_command |-> TRUE]

\* TrajectoryState(t, position=, yaw=, yaw_rate=)
TrajectoryState(time, position, yaw, yaw_rate) ==
    [kind |-> "sample", t |-> time, position |-> position, yaw |-> yaw,
     yaw_rate |-> yaw_rate]

\* QuadrotorCommands(*args): the class takes the rotor rates as its one
\* positional argument; any other number of them is a TypeError
QuadrotorCommands(args) ==
    IF Len(args) = 1
    THEN [raised |-> "", value |-> [kind |-> "rotor_rates",
                                    rotor_rates |-> args[1]]]
    ELSE [raised |-> "TypeError", value |-> NoCommand]

---------------------------------------------------------------------------
(* Params (both notebooks define the same class and the same global p) *)

mass == 1352
g == 980665
\* p.mass * p.g, in 1e-7 N
Weight == MulDivR(mass, g, 10)

inertia == << <<980, 0, 0>>, <<0, 1002, 0>>, <<0, 0, 1860>> >>
arm_length == 19070          \* 0.3814 / 2.0 m, in 1e-5 m
rho == 1225                  \* 1.225 kg/m3, in 1e-3
rotor_diameter == 254        \* 10 * 0.0254 m, in 1e-3 m
static_thrust_coefficient == 14553    \* 0.14553, in 1e-5
static_torque_coefficient == 1047     \* 0.01047, in 1e-5

\* inertia @ v, in 1e-8 (v in 1e-3)
InertiaTimes(v) ==
    [i \in 1..3 |-> inertia[i][1] * v[1] + inertia[i][2] * v[2]
                    + inertia[i][3] * v[3]]

\* np.linalg.inv(inertia) @ tau for the diagonal inertia of Params:
\* tau in 1e-5 N m, result in 1e-3 rad/s^2
InvInertiaTimes(tau) ==
    [i \in 1..3 |-> MulDivR(tau[i], Unit3, inertia[i][i])]

\* np.cross(a, b): a in 1e-3, b in 1e-8, result in 1e-5
Cross(a, b) ==
    << MulDivR(a[2], b[3], Unit6) - MulDivR(a[3], b[2], Unit6),
       MulDivR(a[3], b[1], Unit6) - MulDivR(a[1], b[3], Unit6),
       MulDivR(a[1], b[2], Unit6) - MulDivR(a[2], b[1], Unit6) >>

---------------------------------------------------------------------------
(* Rotation utility *)

\* dRot3(R, omega): storage order x, y, z, w.  quat_dot = (G.T @ omega) / 2,
\* returned through Rot3.from_storage, which stores the four numbers as
\* they are.
dRot3(R, omega) ==
    LET q0 == R[1]
        q1 == R[2]
        q2 == R[3]
        q3 == R[4]
        GT == << << q3, -q2,  q1>>,
                 << q2,  q3, -q0>>,
                 <<-q1,  q0,  q3>>,
                 <<-q0, -q1, -q2>> >>
    IN  [i \in 1..4 |->
            RoundDiv(GT[i][1] * omega[1] + GT[i][2] * omega[2]
                     + GT[i][3] * omega[3], 2 * Unit3)]

\* squared norm of a quaternion, in 1e-6
NormSq(q) == q[1] * q[1] + q[2] * q[2] + q[3] * q[3] + q[4] * q[4]

\* np.pi, in 1e-4 and in mrad
PiE4 == 31416
PiMrad == RoundDiv(PiE4, 10)

\* sin and cos of an angle of at most a quarter turn (x in mrad, |x| <= pi/2),
\* by their power series; results in 1e-3
SinSeries(x) ==
    LET x2 == RoundDiv(x * x, Unit3)
        t3 == RoundDiv(x * x2, 6 * Unit3)
        t5 == RoundDiv(t3 * x2, 20 * Unit3)
        t7 == RoundDiv(t5 * x2, 42 * Unit3)
    IN  x - t3 + t5 - t7

CosSeries(x) ==
    LET x2 == RoundDiv(x * x, Unit3)
        c2 == RoundDiv(x2, 2)
        c4 == RoundDiv(c2 * x2, 12 * Unit3)
        c6 == RoundDiv(c4 * x2, 30 * Unit3)
        c8 == RoundDiv(c6 * x2, 56 * Unit3)
    IN  Unit3 - c2 + c4 - c6 + c8

\* the angle brought into [-pi, pi)
WrapAngle(x) == ((x + PiMrad) % (2 * PiMrad)) - PiMrad

\* np.sin, np.cos of an angle in mrad; results in 1e-3
Sin(x) ==
    LET r == WrapAngle(x)
    IN  IF 2 * r > PiMrad THEN SinSeries(PiMrad - r)
        ELSE IF 2 * r < -PiMrad THEN -SinSeries(PiMrad + r)
        ELSE SinSeries(r)

Cos(x) ==
    LET r == WrapAngle(x)
    IN  IF 2 * r > PiMrad THEN -CosSeries(PiMrad - r)
        ELSE IF 2 * r < -PiMrad THEN -CosSeries(PiMrad + r)
        ELSE CosSeries(r)

\* Rot3.compose: the Hamilton product a * b (storage x, y, z, w)
Compose(a, b) ==
    << RoundDiv(a[4] * b[1] + a[1] * b[4] + a[2] * b[3] - a[3] * b[2], Unit3),
       RoundDiv(a[4] * b[2] - a[1] * b[3] + a[2] * b[4] + a[3] * b[1], Unit3),
       RoundDiv(a[4] * b[3] + a[1] * b[2] - a[2] * b[1] + a[3] * b[4], Unit3),
       RoundDiv(a[4] * b[4] - a[1] * b[1] - a[2] * b[2] - a[3] * b[3], Unit3) >>

\* (mutation of Inverse: the rotation is returned as it is)
Inverse_Forgotten(q) == q

\* Rot3.inverse: the conjugate
Inverse(q) == <<-q[1], -q[2], -q[3], q[4]>>

\* Rot3.to_rotation_matrix (rows), entries in 1e-3
ToRotationMatrix(q) ==
    LET x == q[1]
        y == q[2]
        z == q[3]
        w == q[4]
        P(a, b) == RoundDiv(2 * a * b, Unit3)
    IN  << <<Unit3 - P(y, y) - P(z, z), P(x, y) - P(w, z), P(x, z) + P(w, y)>>,
           <<P(x, y) + P(w, z), Unit3 - P(x, x) - P(z, z), P(y, z) - P(w, x)>>,
           <<P(x, z) - P(w, y), P(y, z) + P(w, x), Unit3 - P(x, x) - P(y, y)>> >>

\* Rot3.from_yaw_pitch_roll(yaw, pitch, roll) = Rz(yaw) Ry(pitch) Rx(roll);
\* angles in mrad
FromYawPitchRoll(yaw, pitch, roll) ==
    LET cy == Cos(RoundDiv(yaw, 2))
        sy == Sin(RoundDiv(yaw, 2))
        cp == Cos(RoundDiv(pitch, 2))
        sp == Sin(RoundDiv(pitch, 2))
        cr == Cos(RoundDiv(roll, 2))
        sr == Sin(RoundDiv(roll, 2))
        M3(a, b, c) == RoundDiv(RoundDiv(a * b, Unit3) * c, Unit3)
    IN  << M3(sr, cp, cy) - M3(cr, sp, sy),
           M3(cr, sp, cy) + M3(sr, cp, sy),
           M3(cr, cp, sy) - M3(sr, sp, cy),
           M3(cr, cp, cy) + M3(sr, sp, sy) >>

\* Rot3.to_yaw_pitch_roll()[0], the yaw angle atan2(Y, X), kept as the
\* direction <<sin(yaw), cos(yaw)>> (1e-3) that np.sin and np.cos read off
\* it; atan2(0, 0) = 0
YawSinCos(q) ==
    LET x == q[1]
        y == q[2]
        z == q[3]
        w == q[4]
        Y == RoundDiv(2 * (x * y + w * z), Unit3)
        X == RoundDiv(w * w + x * x - y * y - z * z, Unit3)
        h == SqrtR(X * X + Y * Y)
    IN  IF h = 0 THEN <<0, Unit3>>
        ELSE <<RoundDiv(Y * Unit3, h), RoundDiv(X * Unit3, h)>>

---------------------------------------------------------------------------
(* 5-Controller-Full: FullQuadrotorDynamics.step *)

dt5 == 5

\* acceleration = (u1 / p.mass) * [0, 0, 1] - [0, 0, p.g]
Acceleration5(u1) == <<0, 0, MulDivR(u1, 10, mass) - g>>

\* (mutation of NewVelocity5: the acceleration is integrated over two
\* timesteps)
NewVelocity5_DoubleStep(velocity, acceleration) ==
    [i \in 1..3 |-> velocity[i] + 2 * acceleration[i] * dt5]

\* new_velocity = velocity + acceleration * dt
NewVelocity5(velocity, acceleration) ==
    [i \in 1..3 |-> velocity[i] + acceleration[i] * dt5]

\* new_position = position + new_velocity * dt
NewPosition5(position, new_velocity) ==
    [i \in 1..3 |-> position[i] + RoundDiv(new_velocity[i] * dt5, 25)]

\* (mutation of AngularAcceleration: the gyroscopic term is dropped)
AngularAcceleration_NoGyro(u2, angular_velocity) == InvInertiaTimes(u2)

\* angular_acceleration =
\*     inv(p.inertia) @ (u2 - cross(angular_velocity, p.inertia @ angular_velocity))
AngularAcceleration(u2, angular_velocity) ==
    InvInertiaTimes(VSub(u2, Cross(angular_velocity,
                                   InertiaTimes(angular_velocity))))

\* new_angular_velocity = angular_velocity + angular_acceleration * dt
NewAngularVelocity5(angular_velocity, angular_acceleration) ==
    [i \in 1..3 |->
        angular_velocity[i] + RoundDiv(angular_acceleration[i] * dt5, Unit3)]

\* new_orientation = dRot3(orientation, new_angular_velocity)
NewOrientation5(orientation, new_angular_velocity) ==
    dRot3(orientation, new_angular_velocity)

\* which fields of the returned state hold a NaN or Inf
NonFinite5(commands, st) ==
    LET nv == ("velocity" \in st.nonfinite) \/ ("u1" \in commands.nonfinite)
        np == ("position" \in st.nonfinite) \/ nv
        nw == ("angular_velocity" \in st.nonfinite)
              \/ ("u2" \in commands.nonfinite)
        no == ("orientation" \in st.nonfinite) \/ nw
    IN  (IF np THEN {"position"} ELSE {})
        \cup (IF nv THEN {"velocity"} ELSE {})
        \cup (IF no THEN {"orientation"} ELSE {})
        \cup (IF nw THEN {"angular_velocity"} ELSE {})

\* (mutation of StepLocals5: explicit Euler, the position is advanced with
\* the velocity the step was given)
StepLocals5_ExplicitEuler(commands, st) ==
    LET acceleration == Acceleration5(commands.u1)
        new_velocity == NewVelocity5(st.velocity, acceleration)
        new_position == NewPosition5(st.position, st.velocity)
        angular_acceleration ==
            AngularAcceleration(commands.u2, st.angular_velocity)
        new_angular_velocity ==
            NewAngularVelocity5(st.angular_velocity, angular_acceleration)
        new_orientation ==
            NewOrientation5(st.orientation, new_angular_velocity)
    IN  [acceleration |-> acceleration,
         angular_acceleration |-> angular_acceleration,
         new_state |-> [position |-> new_position,
                        velocity |-> new_velocity,
                        orientation |-> new_orientation,
                        angular_velocity |-> new_angular_velocity,
                        nonfinite |-> NonFinite5(commands, st)]]

\* the values step computes, in the order it computes them
StepLocals5(commands, st) ==
    LET acceleration == Acceleration5(commands.u1)
        new_velocity == NewVelocity5(st.velocity, acceleration)
        new_position == NewPosition5(st.position, new_velocity)
        angular_acceleration ==
            AngularAcceleration(commands.u2, st.angular_velocity)
        new_angular_velocity ==
            NewAngularVelocity5(st.angular_velocity, angular_acceleration)
        new_orientation ==
            NewOrientation5(st.orientation, new_angular_velocity)
    IN  [acceleration |-> acceleration,
         angular_acceleration |-> angular_acceleration,
         new_state |-> [position |-> new_position,
                        velocity |-> new_velocity,
                        orientation |-> new_orientation,
                        angular_velocity |-> new_angular_velocity,
                        nonfinite |-> NonFinite5(commands, st)]]

\* FullQuadrotorDynamics.step(t, commands, state) -> QuadrotorState
step5(commands, st) == StepLocals5(commands, st).new_state

---------------------------------------------------------------------------
(* Params: the rotor model *)

\* 4 * np.pi ** 2, in 1e-7
FourPiSq == MulDivR(PiE4 * PiE4, 4, 10)

\* Params.rotor_model(static_coefficient) =
\*     rho * static_coefficient * rotor_diameter ** 4 / (4 * np.pi ** 2)
\* in 1e-10 N s^2
rotor_model(static_coefficient) ==
    LET d2 == rotor_diameter * rotor_diameter
    IN  MulDivR(MulDivR(rho * static_coefficient, d2, Unit3), d2, FourPiSq)

k_thrust == rotor_model(static_thrust_coefficient)

k_torque == rotor_model(static_torque_coefficient)

---------------------------------------------------------------------------
(* 3 - Reworking: FullQuadrotorDynamics (rotor rates in, RK45 solve) *)

\* rotor_thrust_model(rotor_rates) = p.k_thrust * np.square(rotor_rates)
rotor_thrust_model(rotor_rates) ==
    [i \in 1..4 |-> MulDivR(k_thrust, rotor_rates[i] * rotor_rates[i], 10^7)]

\* (mutation of MixThrust: the fourth rotor is left out of the sum)
MixThrust_ThreeRotors(thrusts) == <<0, 0, thrusts[1] + thrusts[2] + thrusts[3]>>

\* u1 = [0, 0, sum(thrusts)]
MixThrust(thrusts) == <<0, 0, thrusts[1] + thrusts[2] + thrusts[3] + thrusts[4]>>

\* u2 = [ arm_length * (thrusts[0] - thrusts[2]),
\*        arm_length * (thrusts[1] - thrusts[3]),
\*        k_torque * (rates[0] - rates[1] + rates[2] - rates[3]) ]
MixTorque(thrusts, rotor_rates) ==
    << MulDivR(arm_length, thrusts[1] - thrusts[3], 10^7),
       MulDivR(arm_length, thrusts[2] - thrusts[4], 10^7),
       MulDivR(k_torque,
               rotor_rates[1] - rotor_rates[2] + rotor_rates[3]
               - rotor_rates[4], 10^7) >>

\* R @ u1, in 1e-7 N
RotateForce(R, u1) ==
    [i \in 1..3 |-> MulDivR(R[i][1], u1[1], Unit3) + MulDivR(R[i][2], u1[2], Unit3)
                    + MulDivR(R[i][3], u1[3], Unit3)]

\* accel = (1 / p.mass) * (R @ u1 + p.mass * gravity), gravity = [0, 0, -g]
Accel3(orientation, u1) ==
    LET R == ToRotationMatrix(orientation)
        F == VAdd(RotateForce(R, u1), <<0, 0, -Weight>>)
    IN  [i \in 1..3 |-> MulDivR(F[i], 10, mass)]

\* FullQuadrotorDynamics.state_derivative(state, u1, u2): the rates of the
\* four fields, as a QuadrotorState
state_derivative(st, u1, u2) ==
    LET omega == st.angular_velocity
    IN  [position |-> st.velocity,
         velocity |-> Accel3(st.orientation, u1),
         orientation |-> dRot3(st.orientation, omega),
         angular_velocity |-> AngularAcceleration(u2, omega)]

\* y + (num / den) * h * k for a state y, rates k and h in ms
Advance(y, k, h, num, den) ==
    [position |-> [i \in 1..3 |->
                     y.position[i] + MulDivR(k.position[i], h * num, 25 * den)],
     velocity |-> [i \in 1..3 |->
                     y.velocity[i] + MulDivR(k.velocity[i], h * num, den)],
     orientation |-> [i \in 1..4 |->
                     y.orientation[i]
                     + MulDivR(k.orientation[i], h * num, Unit3 * den)],
     angular_velocity |-> [i \in 1..3 |->
                     y.angular_velocity[i]
                     + MulDivR(k.angular_velocity[i], h * num, Unit3 * den)],
     nonfinite |-> y.nonfinite]

\* k1 + 2 k2 + 2 k3 + k4
RKSum(k1, k2, k3, k4) ==
    [f \in {"position", "velocity", "orientation", "angular_velocity"} |->
        [i \in DOMAIN k1[f] |-> k1[f][i] + 2 * k2[f][i] + 2 * k3[f][i] + k4[f][i]]]

\* sp.integrate.solve_ivp(fun = state_derivative, t_span = (0, dt), y0,
\* method = 'RK45').y[:, -1]: the endpoint of the solve.  One Runge-Kutta
\* step over the whole interval stands for the solver's adaptive steps; the
\* two agree whenever the rates are constant along the interval.
solve_ivp(y0, u1, u2, h) ==
    LET k1 == state_derivative(y0, u1, u2)
        k2 == state_derivative(Advance(y0, k1, h, 1, 2), u1, u2)
        k3 == state_derivative(Advance(y0, k2, h, 1, 2), u1, u2)
        k4 == state_derivative(Advance(y0, k3, h, 1, 1), u1, u2)
    IN  Advance(y0, RKSum(k1, k2, k3, k4), h, 1, 6)

\* FullQuadrotorDynamics.step(t, input), with self.state = st and self.dt = h:
\* the values it computes and the state it stores and returns
StepLocals3(input, st, h) ==
    LET thrusts == rotor_thrust_model(input.rotor_rates)
        u1 == MixThrust(thrusts)
        u2 == MixTorque(thrusts, input.rotor_rates)
    IN  [kind |-> "rotor_step",
         thrusts |-> thrusts, u1 |-> u1, u2 |-> u2,
         level |-> ToRotationMatrix(st.orientation)[3] = <<0, 0, Unit3>>,
         acceleration |-> state_derivative(st, u1, u2).velocity,
         new_state |-> solve_ivp(st, u1, u2, h)]

step3(input, st, h) == StepLocals3(input, st, h).new_state

\* (mutation of hovering_rotor_rate: the weight is shared among eight rotors)
hovering_rotor_rate_EightRotors == SqrtR(MulDivR(Weight, 10^7, 8 * k_thrust))

\* hovering_rotor_rate = np.sqrt(required_thrust / (4 * p.k_thrust)),
\* required_thrust = p.mass * p.g
hovering_rotor_rate == SqrtR(MulDivR(Weight, 10^7, 4 * k_thrust))

\* HoveringController.step(*args)
HoveringController_step ==
    QuadrotorCommands(<< <<hovering_rotor_rate, hovering_rotor_rate,
                           hovering_rotor_rate, hovering_rotor_rate>> >>)

\* EmptyController.step(*args)
EmptyController_step ==
    QuadrotorCommands(<< <<30000, 30000, 30000, 30000>> >>)

\* EmptyTrajectory.eval(*args)
EmptyTrajectory_eval == TrajectoryState(0, Zero3, 0, 0)

---------------------------------------------------------------------------
(* Repeated calls of FullQuadrotorDynamics.step (notebook 5) on a state *)

MaxSteps5 == 4

\* unit quaternions of the 1e-3 grid: level, yawed, rolled, pitched
UnitOrientations ==
    { Identity, <<0, 0, 600, 800>>, <<600, 0, 0, 800>>, <<0, 280, 0, 960>> }

InitStates5 ==
    { QuadrotorState(Zero3, Zero3, q, Zero3, {}) : q \in UnitOrientations }
    \cup { QuadrotorState(Zero3, Zero3, Identity, <<1000, 2000, 0>>, {}),
           QuadrotorState(Zero3, <<10^7, 0, 10^8>>, Identity, Zero3, {}),
           QuadrotorState(Zero3, Zero3, Identity, Zero3, {"velocity"}) }

Commands5 ==
    { ThrustTorque(0, Zero3, {}),
      ThrustTorque(Weight, Zero3, {}),
      ThrustTorque(MulDivR(mass, g + 200000, 10), <<1000, 0, -500>>, {}),
      ThrustTorque(0, Zero3, {"u1"}),
      ThrustTorque(Weight, Zero3, {"u2"}) }

InitDyn5 ==
    /\ state0 \in InitStates5
    /\ state = state0
    /\ command = NoCommand
    /\ sample = NoSample
    /\ gains = DefaultGains
    /\ locals = NoLocals
    /\ raised = ""
    /\ nsteps = 0
    /\ history = NoHistory
    /\ prog = "step5"
    /\ pc = "idle"
    /\ t = 0
    /\ dt = dt5
    /\ output = <<>>

\* one call new = dynamics.step(t, commands, state), the caller keeping new
Step5(commands) ==
    /\ prog = "step5"
    /\ nsteps < MaxSteps5
    /\ locals' = StepLocals5(commands, state)
    /\ state' = step5(commands, state)
    /\ command' = commands
    /\ raised' = ""
    /\ nsteps' = nsteps + 1
    /\ history' =
         [zero_thrust |-> history.zero_thrust /\ commands.u1 = 0,
          zero_torque |-> history.zero_torque /\ commands.u2 = Zero3,
          finite_in |-> history.finite_in /\ commands.nonfinite = {}
                        /\ state.nonfinite = {},
          same_command |-> history.same_command
                           /\ (nsteps = 0 \/ commands = command)]
    /\ UNCHANGED <<dt, state0, sample, gains, prog, pc, t, output>>

NextDyn5 == \E commands \in Commands5 : Step5(commands)

SpecDyn5 == InitDyn5 /\ [][NextDyn5]_vars

---------------------------------------------------------------------------
(* 5-Controller-Full: the trajectory and the controller *)

\* SmoothTrajectory.eval(t):
\*   position = [0.5 sin(t), 0.5 cos(t), 0.2 t], yaw_rate = 0.1, yaw = yaw_rate t
\* (t in ms is t seconds in mrad; 0.5 m * 1e-3 = 2e6 units, 0.2 m/s * 1 ms =
\* 8e5 units)
SmoothTrajectory_eval(time) ==
    TrajectoryState(time,
                    <<2 * Unit6 * Sin(time), 2 * Unit6 * Cos(time),
                      8 * 10^5 * time>>,
                    RoundDiv(time, 10), 100)

\* commanded_acceleration = K_p @ position_error + K_d @ velocity_error
CommandedAcceleration(gs, position_error, velocity_error) ==
    [i \in 1..3 |-> MulDivR(gs.K_p[i], position_error[i], 4 * 10^5)
                    + MulDivR(gs.K_d[i], velocity_error[i], 10^4)]

\* u1 = p.mass * (p.g + commanded_acceleration[2])
Thrust(commanded_acceleration) ==
    MulDivR(mass, g + commanded_acceleration[3], 10)

\* phi_des   = (1 / g) * (a[0] sin(yaw) - a[1] cos(yaw))
PhiDes(a, yaw) == MulDivR(a[1], yaw[1], g) - MulDivR(a[2], yaw[2], g)

\* theta_des = (1 / g) * (a[0] cos(yaw) + a[1] sin(yaw))
ThetaDes(a, yaw) == MulDivR(a[1], yaw[2], g) + MulDivR(a[2], yaw[1], g)

\* orientation_error_vec = [M[2, 1], M[0, 2], M[1, 0]]
OrientationErrorVec(M) == <<M[3][2], M[1][3], M[2][1]>>

\* u2 = Ka_p @ orientation_error_vec + Ka_d @ angular_velocity_error
Torque(gs, orientation_error_vec, angular_velocity_error) ==
    [i \in 1..3 |-> 10 * gs.Ka_p[i] * orientation_error_vec[i]
                    + 10 * gs.Ka_d[i] * angular_velocity_error[i]]

\* Controller.step(t, trajectory, state): the values it computes, in order,
\* and what its return statement yields
ControllerStep(gs, trajectory, st) ==
    LET position_error == VSub(trajectory.position, st.position)
        velocity_error == VSub(Zero3, st.velocity)
        commanded_acceleration ==
            CommandedAcceleration(gs, position_error, velocity_error)
        u1 == Thrust(commanded_acceleration)
        yaw == YawSinCos(st.orientation)
        phi_des == PhiDes(commanded_acceleration, yaw)
        theta_des == ThetaDes(commanded_acceleration, yaw)
        desired_orientation ==
            FromYawPitchRoll(trajectory.yaw, theta_des, phi_des)
        orientation_error ==
            Compose(desired_orientation, Inverse(st.orientation))
        orientation_error_matrix == ToRotationMatrix(orientation_error)
        orientation_error_vec == OrientationErrorVec(orientation_error_matrix)
        angular_velocity_error == VSub(Zero3, st.angular_velocity)
        u2 == Torque(gs, orientation_error_vec, angular_velocity_error)
        ret == QuadrotorCommands(<<u1, u2>>)
    IN  [kind |-> "controller",
         commanded_acceleration |-> commanded_acceleration,
         desired_orientation |-> desired_orientation,
         u1 |-> u1, u2 |-> u2,
         raised |-> ret.raised, value |-> ret.value]

---------------------------------------------------------------------------
(* Direct calls of Controller.step (notebook 5) *)

MaxCalls == 2

\* diagonals a ControllerParams is given: the class defaults, the retuned
\* values of the last cell, and diagonals with a zero or a negative entry
GainChoices ==
    [K_p : {<<10, 10, 1000>>, <<5, 5, 500>>, <<5, 5, 0>>},
     K_d : {<<5, 5, 100>>, <<3, 3, 50>>, <<3, 3, -50>>},
     Ka_p : {<<3000, 3000, 500>>, <<1500, 1500, 250>>},
     Ka_d : {<<500, 500, 200>>, <<300, 300, 100>>, <<0, 300, 100>>}]

SampleTimes == {0, 500, 1000}

\* the state that sits on the sample: same position, at rest, the attitude
\* the sample's yaw gives with no tilt
GoalState(trajectory) ==
    QuadrotorState(trajectory.position, Zero3,
                   FromYawPitchRoll(trajectory.yaw, 0, 0), Zero3, {})

\* states the controller is called on
ControllerStates(trajectory) ==
    { GoalState(trajectory),
      initial_state,
      \* 12.5 cm above the origin, climbing at 1 m/s
      QuadrotorState(<<0, 0, 5 * 10^8>>, <<0, 0, 10^8>>, Identity, Zero3, {}),
      \* on the sample, but yawed, tilted and turning
      QuadrotorState(trajectory.position, Zero3,
                     FromYawPitchRoll(300, 200, -100), <<100, 0, -50>>, {}),
      \* on the sample, drifting sideways
      QuadrotorState(trajectory.position, <<2 * 10^8, -10^8, 0>>,
                     FromYawPitchRoll(trajectory.yaw, 0, 0), Zero3, {}) }

InitCtrl ==
    /\ gains \in GainChoices
    /\ state0 = initial_state
    /\ state = state0
    /\ command = NoCommand
    /\ sample = NoSample
    /\ locals = NoLocals
    /\ raised = ""
    /\ nsteps = 0
    /\ history = NoHistory
    /\ prog = "controller"
    /\ pc = "idle"
    /\ t = 0
    /\ dt = dt5
    /\ output = <<>>

\* one call controller.step(t, trajectory.eval(t), st)
CallController(time, st) ==
    /\ prog = "controller"
    /\ nsteps < MaxCalls
    /\ sample' = SmoothTrajectory_eval(time)
    /\ state' = st
    /\ t' = time
    /\ locals' = ControllerStep(gains, sample', st)
    /\ raised' = locals'.raised
    /\ command' = locals'.value
    /\ nsteps' = nsteps + 1
    /\ UNCHANGED <<dt, state0, gains, history, prog, pc, output>>

NextCtrl ==
    \E time \in SampleTimes :
        \E st \in ControllerStates(SmoothTrajectory_eval(time)) :
            CallController(time, st)

SpecCtrl == InitCtrl /\ [][NextCtrl]_vars

---------------------------------------------------------------------------
(* Direct calls of FullQuadrotorDynamics.step (notebook 3) *)

MaxSteps3 == 3

dt3 == 10

HoverRates == HoveringController_step.value.rotor_rates

\* rotor rates the dynamics is driven with: hover, EmptyController's 300
\* rad/s, a yaw pair, a roll pair
RotorRateChoices ==
    { HoverRates,
      EmptyController_step.value.rotor_rates,
      <<40000, 42000, 40000, 42000>>,
      <<42000, 41000, 40000, 41000>> }

InitStates3 ==
    { initial_state,
      QuadrotorState(Zero3, Zero3, <<0, 0, 600, 800>>, Zero3, {}),
      QuadrotorState(Zero3, Zero3, <<600, 0, 0, 800>>, Zero3, {}),
      QuadrotorState(Zero3, <<10^7, 0, 0>>, Identity, <<0, 100, 200>>, {}) }

InitRotor ==
    /\ state0 \in InitStates3
    /\ state = state0
    /\ command = NoCommand
    /\ sample = NoSample
    /\ gains = DefaultGains
    /\ locals = NoLocals
    /\ raised = ""
    /\ nsteps = 0
    /\ history = NoHistory
    /\ prog = "step3"
    /\ pc = "idle"
    /\ t = 0
    /\ dt = dt3
    /\ output = <<>>

\* one call dynamics.step(t, QuadrotorCommands(rates)) with self.dt = 0.01
Step3(rates) ==
    /\ prog = "step3"
    /\ nsteps < MaxSteps3
    /\ command' = QuadrotorCommands(<<rates>>).value
    /\ locals' = StepLocals3(command', state, dt3)
    /\ state' = step3(command', state, dt3)
    /\ raised' = ""
    /\ nsteps' = nsteps + 1
    /\ UNCHANGED <<dt, state0, sample, gains, history, prog, pc, t, output>>

NextRotor == \E rates \in RotorRateChoices : Step3(rates)

SpecRotor == InitRotor /\ [][NextRotor]_vars

---------------------------------------------------------------------------
(* SimulatorBase.simulate(), as run_and_render (notebook 3) and              *)
(* run_and_render_smooth (notebook 5) build it.  The loop is the one the    *)
(* notebook's recorded traceback shows:                                     *)
(*     while t < self.t_total:                                              *)
(*         trajectory = self.trajectory.eval(t)                             *)
(*         command = self.controller.step(t, trajectory, state)             *)
(*         state = self.dynamics.step(t, command)                           *)
(*         output.append(SimulatorState(t, state, command, trajectory))     *)
(* with the clock advanced by dt at the end of each pass.                   *)

t_total3 == 5000
sim_dt5 == 5
t_total5 == 10000

SimDt == IF prog = "nb3" THEN dt3 ELSE sim_dt5
TTotal == IF prog = "nb3" THEN t_total3 ELSE t_total5

NoCalls == [evals |-> 0, controls |-> 0, steps |-> 0]

\* the parts of simulate() that the traceback does not show: the clock
\* starts at 0 and advances by dt once per pass, and the dynamics object
\* integrates over the simulator's dt, starting from initial_state
ClockStart == 0
ClockNext(time) == time + SimDt
ClockTest(time) ==
    IF time < TTotal THEN {"eval"}
    ELSE IF time = TTotal THEN {"eval", "done"} ELSE {"done"}
DynamicsDt == SimDt

\* initial states notebook 5 is run from ("play with this variable")
SimInitStates5 ==
    { initial_state,
      QuadrotorState(<<0, 0, 5 * 10^8>>, <<0, 0, 10^8>>, Identity, Zero3, {}) }

InitSim ==
    /\ prog \in {"nb3", "nb5"}
    /\ IF prog = "nb3"
       THEN gains = DefaultGains /\ state0 = initial_state
       ELSE gains \in GainChoices /\ state0 \in SimInitStates5
    /\ state = state0
    /\ command = NoCommand
    /\ sample = NoSample
    /\ locals = NoLocals
    /\ raised = ""
    /\ nsteps = 0
    /\ history = NoCalls
    /\ pc = "construct"
    /\ t = ClockStart
    /\ dt = SimDt
    /\ output = <<>>

\* ControllerParams(...) / controller_p.K_p = ... / Controller(controller_p)
\* / SimulatorBase(...): the values are stored as given
SimConstruct ==
    /\ pc = "construct"
    /\ pc' = "loop"
    /\ UNCHANGED <<dt, state, state0, command, sample, gains, locals, raised,
                   nsteps, history, prog, t, output>>

\* while t < self.t_total.  The clock is a float that accumulates dt: after
\* t_total / dt passes it is t_total up to rounding, on either side, so the
\* test can let one more pass through
SimLoop ==
    /\ pc = "loop"
    /\ pc' \in ClockTest(t)
    /\ UNCHANGED <<dt, state, state0, command, sample, gains, locals, raised,
                   nsteps, history, prog, t, output>>

\* trajectory = self.trajectory.eval(t)
SimEval ==
    /\ pc = "eval"
    /\ sample' = IF prog = "nb3" THEN EmptyTrajectory_eval
                                 ELSE SmoothTrajectory_eval(t)
    /\ history' = [history EXCEPT !.evals = @ + 1]
    /\ pc' = "control"
    /\ UNCHANGED <<dt, state, state0, command, gains, locals, raised, nsteps,
                   prog, t, output>>

\* command = self.controller.step(t, trajectory, state)
SimControl ==
    /\ pc = "control"
    /\ locals' = IF prog = "nb3" THEN HoveringController_step
                                 ELSE ControllerStep(gains, sample, state)
    /\ raised' = locals'.raised
    /\ command' = IF locals'.raised = "" THEN locals'.value ELSE command
    /\ pc' = IF locals'.raised = "" THEN "dynamics" ELSE "failed"
    /\ history' = [history EXCEPT !.controls = @ + 1]
    /\ UNCHANGED <<dt, state, state0, sample, gains, nsteps, prog, t, output>>

\* state = self.dynamics.step(t, command): notebook 3's step takes (t, input)
\* and integrates self.state; notebook 5's step takes (t, commands, state),
\* so a call with two arguments is a TypeError
SimDynamics ==
    /\ pc = "dynamics"
    /\ IF prog = "nb3"
       THEN /\ locals' = StepLocals3(command, state, DynamicsDt)
            /\ state' = locals'.new_state
            /\ raised' = ""
            /\ pc' = "append"
       ELSE /\ raised' = "TypeError"
            /\ pc' = "failed"
            /\ UNCHANGED <<locals, state>>
    /\ history' = [history EXCEPT !.steps = @ + 1]
    /\ UNCHANGED <<dt, state0, command, sample, gains, nsteps, prog, t,
                   output>>

\* output.append(SimulatorState(t, state, command, trajectory)), then the
\* clock advances
SimAppend ==
    /\ pc = "append"
    /\ output' = Append(output, [t |-> t, state |-> state,
                                 command |-> command, trajectory |-> sample])
    /\ t' = ClockNext(t)
    /\ nsteps' = nsteps + 1
    /\ pc' = "loop"
    /\ UNCHANGED <<dt, state, state0, command, sample, gains, locals, raised,
                   history, prog>>

NextSim ==
    \/ SimConstruct
    \/ SimLoop
    \/ SimEval
    \/ SimControl
    \/ SimDynamics
    \/ SimAppend

SpecSim == InitSim /\ [][NextSim]_vars

---------------------------------------------------------------------------
(* The fixed-step dynamics (notebook 5) under a driver clock: a simulator   *)
(* constructed with timestep dt calls step(t, commands, state) once per     *)
(* tick and then advances its clock t by dt.                                *)

MaxTicks5 == 3

\* timesteps a SimulatorBase is constructed with, in ms: notebook 5's 0.005
\* and notebook 3's 0.01
DtChoices == {sim_dt5, dt3}

InitTick5 ==
    /\ state0 \in InitStates5
    /\ state = state0
    /\ command = NoCommand
    /\ sample = NoSample
    /\ gains = DefaultGains
    /\ locals = NoLocals
    /\ raised = ""
    /\ nsteps = 0
    /\ history = NoHistory
    /\ prog = "tick5"
    /\ pc = "idle"
    /\ t = ClockStart
    /\ dt \in DtChoices
    /\ output = <<>>

\* state = dynamics.step(t, commands, state), then the clock advances by the
\* simulator's dt
Tick5(commands) ==
    /\ prog = "tick5"
    /\ nsteps < MaxTicks5
    /\ locals' = StepLocals5(commands, state)
    /\ state' = locals'.new_state
    /\ command' = commands
    /\ raised' = ""
    /\ nsteps' = nsteps + 1
    /\ t' = t + dt
    /\ history' =
         [zero_thrust |-> history.zero_thrust /\ commands.u1 = 0,
          zero_torque |-> history.zero_torque /\ commands.u2 = Zero3,
          finite_in |-> history.finite_in /\ commands.nonfinite = {}
                        /\ state.nonfinite = {},
          same_command |-> history.same_command
                           /\ (nsteps = 0 \/ commands = command)]
    /\ UNCHANGED <<dt, state0, sample, gains, prog, pc, output>>

NextTick5 == \E commands \in Commands5 : Tick5(commands)

SpecTick5 == InitTick5 /\ [][NextTick5]_vars

---------------------------------------------------------------------------
(* Properties of the fixed-step dynamics (notebook 5) *)

\* a quaternion of norm 1, to the resolution of the 1e-3 grid
IsUnit(q) == Abs(NormSq(q) - Unit6) <= 2 * Unit3

\* C1: from a state whose orientation is a unit quaternion, and for finite
\* commands, the orientation is a unit quaternion after every step of a run.
C1_OrientationStaysUnit ==
    (IsUnit(state0.orientation) /\ history.finite_in)
        => IsUnit(state.orientation)

\* C2: dRot3(r, 0) is the zero 4-vector for every unit orientation r, and a
\* vehicle with zero angular velocity driven by zero torque keeps its
\* orientation r through any number of steps.
C2_ZeroRateKeepsOrientation ==
    /\ \A r \in UnitOrientations : dRot3(r, Zero3) = <<0, 0, 0, 0>>
    /\ (state0.angular_velocity = Zero3 /\ history.zero_torque
        /\ history.finite_in)
           => state.orientation = state0.orientation

\* C3: free fall.  From rest, with u1 = 0 and u2 = 0 in every step, after N
\* steps the vertical velocity is -g * N * dt and the horizontal velocity
\* is still zero.
C3_FreeFall ==
    (state0.velocity = Zero3 /\ history.zero_thrust /\ history.zero_torque
     /\ history.finite_in)
        => state.velocity = <<0, 0, -(g * nsteps * dt5)>>

C3_Witness ==
    /\ state0.velocity = Zero3
    /\ history.zero_thrust /\ history.zero_torque /\ history.finite_in
    /\ nsteps = 3
    /\ state.velocity[3] = -(3 * g * dt5)

\* C8: a step whose state or command holds a NaN or Inf fails with an
\* error, and no non-finite value is carried into the state the next step
\* reads.
C8_NonFiniteRejected ==
    nsteps > 0 =>
        /\ command.nonfinite # {} => raised # ""
        /\ state.nonfinite # {} => raised # ""

\* R @ (0, 0, u1) / mass + (0, 0, -g), R the rotation matrix of orientation
RotatedAcceleration(orientation, u1) ==
    LET R == ToRotationMatrix(orientation)
    IN  [i \in 1..3 |-> MulDivR(MulDivR(R[i][3], u1, Unit3), 10, mass)
                        - (IF i = 3 THEN g ELSE 0)]

\* a call of step on a finite state with a finite command
FiniteStep5 ==
    /\ prog = "step5"
    /\ state.nonfinite = {}
    /\ command'.nonfinite = {}

\* C13: the linear acceleration a step uses is R * (0, 0, u1) / mass +
\* (0, 0, -g), R the body-to-world rotation of the orientation of the state
\* the step is given.
C13_ThrustAlongBodyAxis ==
    [][FiniteStep5 =>
         locals'.acceleration
             = RotatedAcceleration(state.orientation, command'.u1)]_vars

\* Euler's equations about the principal axes, for the diagonal inertia of
\* Params: the torque I_i * alpha_i + (I_k - I_j) * omega_j * omega_k that an
\* angular acceleration alpha takes at angular velocity omega, in 1e-5 N m
EulerTorque(alpha, omega) ==
    LET I == [i \in 1..3 |-> inertia[i][i]]
        Gyro(i, j, k) == MulDivR(omega[j] * omega[k], I[k] - I[j], Unit6)
    IN  << MulDivR(I[1], alpha[1], Unit3) + Gyro(1, 2, 3),
           MulDivR(I[2], alpha[2], Unit3) + Gyro(2, 3, 1),
           MulDivR(I[3], alpha[3], Unit3) + Gyro(3, 1, 2) >>

\* omega has two components of at least 0.5 rad/s, enough for the gyroscopic
\* torque to show on the 1e-5 N m grid
TwoAxes(omega) == Cardinality({i \in 1..3 : Abs(omega[i]) >= 500}) >= 2

\* C14: the angular acceleration a step uses solves the rigid-body equation
\* I alpha = u2 - omega x (I omega) at the angular velocity of the state the
\* step is given; with u2 = 0 and that angular velocity turning about two
\* axes at once, it is not zero.  (Equality is to 2e-5 N m, the rounding of
\* the torque and acceleration grids.)
C14_EulerEquation ==
    [][FiniteStep5 =>
         LET alpha == locals'.angular_acceleration
             omega == state.angular_velocity
             tau == EulerTorque(alpha, omega)
         IN  /\ \A i \in 1..3 : Abs(tau[i] - command'.u2[i]) <= 2
             /\ (command'.u2 = Zero3 /\ TwoAxes(omega))
                    => alpha # Zero3]_vars

C14_Witness ==
    /\ nsteps = 1
    /\ state0.angular_velocity = <<1000, 2000, 0>>
    /\ command.u2 = Zero3
    /\ command.nonfinite = {}
    /\ locals.angular_acceleration = <<0, 0, -24>>

\* a run from rest at the origin in which every step was given the same
\* finite command
ConstantCommandFromRest ==
    /\ state0.position = Zero3
    /\ state0.velocity = Zero3
    /\ history.same_command
    /\ history.finite_in

\* a * dt^2 * N * (N + 1) / 2 in position units (a in 1e-5 m/s^2, dt in ms)
SemiImplicitHeight(a, N) == RoundDiv(a * dt5 * dt5 * ((N * (N + 1)) \div 2), 25)

\* C16: semi-implicit Euler.  From rest at the origin, under a constant
\* command that gives vertical acceleration a, after N steps the vertical
\* velocity is a * N * dt and the height is a * dt^2 * N * (N + 1) / 2, for
\* every N >= 0.
C16_SemiImplicitEuler ==
    ConstantCommandFromRest =>
        IF nsteps = 0
        THEN state.velocity[3] = 0 /\ state.position[3] = 0
        ELSE LET a == locals.acceleration[3]
             IN  /\ state.velocity[3] = a * nsteps * dt5
                 /\ state.position[3] = SemiImplicitHeight(a, nsteps)

C16_Witness ==
    /\ ConstantCommandFromRest
    /\ nsteps = 3
    /\ locals.acceleration[3] = 200000
    /\ state.velocity[3] = 200000 * 3 * dt5
    /\ state.position[3] = 200000 * 6

\* a tick of the dynamics on a finite state with a finite command
FiniteTick5 ==
    /\ prog = "tick5"
    /\ state.nonfinite = {}
    /\ command'.nonfinite = {}

\* C15: in every tick the dynamics integrates velocity, position and angular
\* velocity over the time by which the driver's clock advances in that tick,
\* whatever dt the simulator was constructed with.
C15_StepCoversClockTick ==
    [][FiniteTick5 =>
         LET h == t' - t
             a == locals'.acceleration
             alpha == locals'.angular_acceleration
         IN  /\ \A i \in 1..3 :
                   state'.velocity[i] = state.velocity[i] + a[i] * h
             /\ \A i \in 1..3 :
                   state'.angular_velocity[i]
                       = state.angular_velocity[i]
                         + RoundDiv(alpha[i] * h, Unit3)
             /\ \A i \in 1..3 :
                   state'.position[i]
                       = state.position[i]
                         + RoundDiv(state'.velocity[i] * h, 25)]_vars

---------------------------------------------------------------------------
(* Properties of the controller (notebook 5) *)

\* the controller was called on a state that sits on its sample: same
\* position, at rest, not turning, attitude equal to the desired one
AtGoal ==
    /\ nsteps > 0
    /\ locals.kind = "controller"
    /\ state.position = sample.position
    /\ state.velocity = Zero3
    /\ state.angular_velocity = Zero3
    /\ state.orientation = locals.desired_orientation
    /\ state.orientation = FromYawPitchRoll(sample.yaw, 0, 0)

\* C5: at the goal Controller.step computes u2 = (0, 0, 0) and
\* u1 = mass * g, whatever the gains.
C5_IdleAtGoal == AtGoal => (locals.u2 = Zero3 /\ locals.u1 = Weight)

C5_Witness ==
    /\ AtGoal
    /\ sample.yaw # 0
    /\ gains # DefaultGains
    /\ locals.u2 = Zero3
    /\ locals.u1 = Weight

\* C10: the collective thrust u1 that Controller.step computes is never
\* negative.
C10_ThrustNonNegative ==
    (nsteps > 0 /\ locals.kind = "controller") => locals.u1 >= 0

\* C11: for a finite state and sample, Controller.step returns without
\* raising, and what it returns is a command that carries the u1 and u2 it
\* computed.
C11_ControllerReturns ==
    (nsteps > 0 /\ state.nonfinite = {}) =>
        /\ raised = ""
        /\ command.kind = "u1u2"
        /\ command.u1 = locals.u1
        /\ command.u2 = locals.u2

---------------------------------------------------------------------------
(* Properties of the rotor-rate dynamics (notebook 3) *)

\* a tenth of the 1% of g that the hover scenario allows, in 1e-5 m/s^2
HoverTol == g \div 1000

\* the last step was driven with the hover rate on all four rotors and
\* started from a level attitude
HoverStep ==
    /\ nsteps > 0
    /\ command.rotor_rates = HoverRates
    /\ locals.level

\* C4: hover balance.  With all four rotors at sqrt(mass*g/(4*k_thrust)) and
\* the vehicle level, the summed thrust is mass*g, the net acceleration is
\* zero (vertical within the tolerance, horizontal exactly), and the body
\* torque u2 is (0, 0, 0).
C4_HoverBalance ==
    HoverStep =>
        /\ locals.u1[1] = 0 /\ locals.u1[2] = 0
        /\ Abs(locals.u1[3] - Weight) <= Weight \div 1000
        /\ locals.acceleration[1] = 0 /\ locals.acceleration[2] = 0
        /\ Abs(locals.acceleration[3]) <= HoverTol
        /\ locals.u2 = Zero3

C4_Witness ==
    /\ HoverStep
    /\ nsteps >= 2
    /\ state0.orientation = <<0, 0, 600, 800>>
    /\ locals.u2 = Zero3
    /\ Abs(locals.acceleration[3]) <= HoverTol

\* k_torque * (r0^2 - r1^2 + r2^2 - r3^2), in 1e-5 N m (rates in 1e-2 rad/s,
\* k_torque in 1e-10)
YawTorqueOfSquares(r) ==
    MulDivR(k_torque,
            RoundDiv(r[1] * r[1] - r[2] * r[2] + r[3] * r[3] - r[4] * r[4],
                     100),
            10^7)

\* C12: the yaw component of u2 is the alternating-sign sum of the rotor
\* torques k_torque * rate_i^2, for every vector of four rotor rates.
C12_YawTorqueFromSquares ==
    nsteps > 0 => locals.u2[3] = YawTorqueOfSquares(command.rotor_rates)

---------------------------------------------------------------------------
(* Properties of the driver loop *)

\* 0.05 m in 2.5e-10 m, 0.05 m/s in 1e-8 m/s
PosTol == 2 * 10^8
VelTol == 5 * 10^6

\* the Euclidean norm of v is at most bound (bound a multiple of 10^4); the
\* squares are taken on a grid 10^4 coarser
NormWithin(v, bound) ==
    /\ \A i \in 1..3 : Abs(v[i]) <= bound
    /\ LET c == [i \in 1..3 |-> RoundDiv(v[i], 10^4)]
           b == bound \div 10^4
       IN  c[1] * c[1] + c[2] * c[2] + c[3] * c[3] <= b * b

\* t_total / dt of the notebook-3 run: 500
Ticks3 == t_total3 \div dt3

\* C6: end-to-end hover.  The notebook-3 run (origin, level, at rest; hover
\* command; dt = 0.01; 5 s) makes 500 ticks (one more if the accumulated
\* clock falls short of t_total), and at every tick, the last included, the
\* position is within 0.05 m of the origin and the velocity within 0.05 m/s
\* of zero.
C6_HoverStaysPut ==
    prog = "nb3" =>
        /\ NormWithin(state.position, PosTol)
        /\ NormWithin(state.velocity, VelTol)
        /\ \A k \in 1..Len(output) :
              /\ NormWithin(output[k].state.position, PosTol)
              /\ NormWithin(output[k].state.velocity, VelTol)
        /\ Len(output) <= Ticks3 + 1
        /\ pc = "done" => Len(output) \in {Ticks3, Ticks3 + 1}

C6_Witness ==
    /\ prog = "nb3"
    /\ pc = "done"
    /\ Len(output) = Ticks3
    /\ t = t_total3
    /\ output[1].state # initial_state
    /\ output[Ticks3].state = state
    /\ output[Ticks3].command.rotor_rates = HoverRates
    /\ NormWithin(state.position, PosTol)
    /\ NormWithin(state.velocity, VelTol)

\* C7: every tick calls trajectory.eval, controller.step and dynamics.step
\* in that order, once each, and appends one (t, state, command, sample)
\* tuple; no tick is left unfinished; the state the controller reads in a
\* tick is the state the dynamics returned in the tick before.
C7_TickProtocol ==
    LET n == Len(output)
        Calls(e, c, d) == history = [evals |-> e, controls |-> c, steps |-> d]
    IN  /\ pc # "failed"
        /\ pc \in {"construct", "loop", "eval", "done"} => Calls(n, n, n)
        /\ pc = "control" => Calls(n + 1, n, n)
        /\ pc = "dynamics" => Calls(n + 1, n + 1, n)
        /\ pc = "append" => Calls(n + 1, n + 1, n + 1)
        /\ (n > 0 /\ pc # "append") => state = output[n].state

\* every diagonal entry of the four gain matrices is positive
PositiveGains(gs) ==
    \A f \in {"K_p", "K_d", "Ka_p", "Ka_d"} : \A i \in 1..3 : gs[f][i] > 0

\* C9: a configuration with a zero or negative gain is rejected at
\* construction: no tick of a run starts with such a configuration.
C9_BadConfigNeverRuns ==
    history.evals > 0 => PositiveGains(gains)

===========================================================================
